---- MODULE Spec2Model ----
(***************************************************************************)
(* Model of capture.py: a single-shot capture script.  It queries the      *)
(* number of cameras, opens and configures one, enables continuous         *)
(* capture, fetches one frame, disables continuous capture, saves the raw  *)
(* frame as DNG, demosaics it, saves the 16-bit RGB frame as PNG, shifts   *)
(* it right by 8 bits and saves the result as JPEG.                        *)
(*                                                                         *)
(* The script is straight-line code, so the state is the position in the   *)
(* script (pc), the script's variables, the files on disk and the device.  *)
(* Every statement is one action.  A call into svs, tiffutils or cv2 may   *)
(* raise, which ends the script (nothing is caught).  cv.imwrite reports a *)
(* file it could not write by returning False, and the script discards     *)
(* that return value.                                                      *)
(***************************************************************************)
EXTENDS Integers, Sequences, FiniteSets, TLC

VARIABLES pc, num, stdout, cam, counter, img, meta, rgb, rgb8,
          files, fetched, trace, failed, err

vars == <<pc, num, stdout, cam, counter, img, meta, rgb, rgb8,
          files, fetched, trace, failed, err>>

(***************************************************************************)
(* Bounds of the model and constants of the program.                       *)
(***************************************************************************)
\* largest device count the count query returns in the model
MaxCameras == 2
\* largest frame height and width in the model (frames are 3..MaxDim a side)
MaxDim == 4
\* cam.framerate = 5
Framerate == 5
\* cam.exposure = 40
Exposure == 40
\* np.right_shift(rgb, 8)
ShiftAmount == 8
\* next() returns a 16-bit array: the largest sample
MaxSample == 65535

\* sample values the model's sensor delivers at the four sites of a Bayer tile
SampleVals == {400, 4096, MaxSample}
\* frame metadata values returned beside the frame
Metas == {"meta_a", "meta_b"}
Dims == 3..MaxDim

FileNames == {"test.dng", "capture.png", "capture.jpg"}

\* A frame of h rows and w columns that repeats the 2x2 tile <<a, b, c, d>>.
TileFrame(h, w, t) ==
    [r \in 1..h |-> [c \in 1..w |-> t[2 * ((r - 1) % 2) + ((c - 1) % 2) + 1]]]

\* The frames the device can deliver.
Frames ==
    {TileFrame(h, w, t) : h \in Dims, w \in Dims,
                          t \in SampleVals \X SampleVals \X SampleVals \X SampleVals}

Height(f) == Len(f)
Width(f) == IF Len(f) = 0 THEN 0 ELSE Len(f[1])

(***************************************************************************)
(* The statements of the script, in program order.                         *)
(***************************************************************************)
\* Mutation: the stop of continuous capture moved to the end of the script.
NextStepStopLast(step) ==
    CASE step = "number_cameras" -> "print"
      [] step = "print"          -> "Camera"
      [] step = "Camera"         -> "set_framerate"
      [] step = "set_framerate"  -> "set_exposure"
      [] step = "set_exposure"   -> "set_counter"
      [] step = "set_counter"    -> "capture_on"
      [] step = "capture_on"     -> "next"
      [] step = "next"           -> "save_dng"
      [] step = "save_dng"       -> "cvtColor"
      [] step = "cvtColor"       -> "imwrite_png"
      [] step = "imwrite_png"    -> "right_shift"
      [] step = "right_shift"    -> "imwrite_jpg"
      [] step = "imwrite_jpg"    -> "capture_off"
      [] step = "capture_off"    -> "done"

\* Mutation: the script loops back to fetch another frame after the JPEG.
NextStepRefetch(step) ==
    CASE step = "number_cameras" -> "print"
      [] step = "print"          -> "Camera"
      [] step = "Camera"         -> "set_framerate"
      [] step = "set_framerate"  -> "set_exposure"
      [] step = "set_exposure"   -> "set_counter"
      [] step = "set_counter"    -> "capture_on"
      [] step = "capture_on"     -> "next"
      [] step = "next"           -> "capture_off"
      [] step = "capture_off"    -> "save_dng"
      [] step = "save_dng"       -> "cvtColor"
      [] step = "cvtColor"       -> "imwrite_png"
      [] step = "imwrite_png"    -> "right_shift"
      [] step = "right_shift"    -> "imwrite_jpg"
      [] step = "imwrite_jpg"    -> "next"

\* The statement that follows `step` (lines 8 to 35, top to bottom).
NextStep(step) ==
    CASE step = "number_cameras" -> "print"
      [] step = "print"          -> "Camera"
      [] step = "Camera"         -> "set_framerate"
      [] step = "set_framerate"  -> "set_exposure"
      [] step = "set_exposure"   -> "set_counter"
      [] step = "set_counter"    -> "capture_on"
      [] step = "capture_on"     -> "next"
      [] step = "next"           -> "capture_off"
      [] step = "capture_off"    -> "save_dng"
      [] step = "save_dng"       -> "cvtColor"
      [] step = "cvtColor"       -> "imwrite_png"
      [] step = "imwrite_png"    -> "right_shift"
      [] step = "right_shift"    -> "imwrite_jpg"
      [] step = "imwrite_jpg"    -> "done"

\* The statements that call into svs, tiffutils or cv2 and can raise.
RaisingSteps ==
    {"number_cameras", "set_framerate", "set_exposure", "capture_on", "next",
     "capture_off", "save_dng", "cvtColor", "imwrite_png", "imwrite_jpg"}

(***************************************************************************)
(* The library functions the script applies to the frame.                  *)
(***************************************************************************)
\* Mutation: the average of two neighbours without the division.
Avg2NoShift(a, b) == a + b + 1

\* Bilinear interpolation of two neighbours, rounded: (a + b + 1) >> 1.
Avg2(a, b) == (a + b + 1) \div 2

\* Bilinear interpolation of four neighbours, rounded: (a+b+c+d+2) >> 2.
Avg4(a, b, c, d) == (a + b + c + d + 2) \div 4

\* The sample at row r, column c of src, counted from 0 as the library does.
Px(src, r, c) == src[r + 1][c + 1]

\* The colour the sensor site (r, c) records under a conversion code.  OpenCV
\* names a Bayer code by the colours of row 1, columns 1 and 2.
SiteColour(code, r, c) ==
    LET k == 2 * (r % 2) + (c % 2)
    IN  IF code = "COLOR_BAYER_GR2RGB"
        THEN (CASE k = 0 -> "G" [] k = 1 -> "B" [] k = 2 -> "R" [] k = 3 -> "G")
        ELSE (CASE k = 0 -> "R" [] k = 1 -> "G" [] k = 2 -> "G" [] k = 3 -> "B")

\* The <<R, G, B>> pixel at an interior site (r, c): the site's own sample for
\* its colour, the rounded mean of the nearest sites of each other colour.
InteriorPixel(src, code, r, c) ==
    LET v     == Px(src, r, c)
        horiz == Avg2(Px(src, r, c - 1), Px(src, r, c + 1))
        vert  == Avg2(Px(src, r - 1, c), Px(src, r + 1, c))
        cross == Avg4(Px(src, r, c - 1), Px(src, r, c + 1),
                      Px(src, r - 1, c), Px(src, r + 1, c))
        diag  == Avg4(Px(src, r - 1, c - 1), Px(src, r - 1, c + 1),
                      Px(src, r + 1, c - 1), Px(src, r + 1, c + 1))
        col   == SiteColour(code, r, c)
    IN  CASE col = "R" -> <<v, cross, diag>>
          [] col = "B" -> <<diag, cross, v>>
          [] col = "G" ->
               IF SiteColour(code, r, c + 1) = "R"
               THEN <<horiz, v, vert>>
               ELSE <<vert, v, horiz>>

Clamp(x, lo, hi) == IF x < lo THEN lo ELSE IF x > hi THEN hi ELSE x

\* cv.cvtColor(src, code) for a Bayer code on a frame of at least 3x3: the
\* interior is interpolated, the first and last column of each row and then
\* the first and last row are copied from their inner neighbours.
cvtColor(src, code) ==
    LET h == Height(src)
        w == Width(src)
    IN  [r \in 1..h |-> [c \in 1..w |->
            InteriorPixel(src, code, Clamp(r - 1, 1, h - 2), Clamp(c - 1, 1, w - 2))]]

\* x >> n, one bit at a time.
RECURSIVE Shr(_, _)
Shr(x, n) == IF n = 0 THEN x ELSE Shr(x \div 2, n - 1)

\* Mutation: the shift rounds to nearest instead of dropping the low bits.
right_shift_rounding(arr, n) ==
    [r \in DOMAIN arr |-> [c \in DOMAIN arr[r] |->
        [ch \in DOMAIN arr[r][c] |-> Shr(arr[r][c][ch] + 128, n)]]]

\* np.right_shift(arr, n): every sample shifted right by n bits.
right_shift(arr, n) ==
    [r \in DOMAIN arr |-> [c \in DOMAIN arr[r] |->
        [ch \in DOMAIN arr[r][c] |-> Shr(arr[r][c][ch], n)]]]

\* The JPEG encoder takes 8-bit samples: cv.imwrite converts a deeper array
\* with saturation before encoding.
Saturate8(arr) ==
    [r \in DOMAIN arr |-> [c \in DOMAIN arr[r] |->
        [ch \in DOMAIN arr[r][c] |->
            IF arr[r][c][ch] > 255 THEN 255 ELSE arr[r][c][ch]]]]

(***************************************************************************)
(* The initial state: nothing has run.                                     *)
(***************************************************************************)
Init ==
    /\ pc = "number_cameras"
    /\ num = -1
    /\ stdout = <<>>
    /\ cam = [open |-> FALSE, framerate |-> 0, exposure |-> 0,
              continuous_capture |-> FALSE, name |-> "svs_camera"]
    /\ counter = -1
    /\ img = <<>>
    /\ meta = "none"
    /\ rgb = <<>>
    /\ rgb8 = <<>>
    /\ files = [f \in FileNames |-> <<>>]
    /\ fetched = <<>>
    /\ trace = <<>>
    /\ failed = {}
    /\ err = "none"

\* Common part of a statement that completes: it is recorded and the script
\* moves to the next statement.
Advance(step) ==
    /\ pc = step
    /\ trace' = Append(trace, step)
    /\ pc' = NextStep(step)

(***************************************************************************)
(* The statements.                                                         *)
(***************************************************************************)
\* num = svs.number_cameras()
NumberCameras ==
    /\ Advance("number_cameras")
    /\ \E n \in 0..MaxCameras : num' = n
    /\ UNCHANGED <<stdout, cam, counter, img, meta, rgb, rgb8, files, fetched,
                   failed, err>>

\* Mutation: the script exits when no camera was counted.
PrintNumExitOnZero ==
    /\ pc = "print"
    /\ trace' = Append(trace, "print")
    /\ pc' = IF num = 0 THEN "done" ELSE NextStep("print")
    /\ stdout' = Append(stdout, num)
    /\ UNCHANGED <<num, cam, counter, img, meta, rgb, rgb8, files, fetched,
                   failed, err>>

\* print('Number of camera found: ', num)
PrintNum ==
    /\ Advance("print")
    /\ stdout' = Append(stdout, num)
    /\ UNCHANGED <<num, cam, counter, img, meta, rgb, rgb8, files, fetched,
                   failed, err>>

\* cam = svs.Camera(), the open succeeds.  The script passes nothing to the
\* call and does not test num, so the outcome is the library's for any count.
Camera ==
    /\ Advance("Camera")
    /\ cam' = [cam EXCEPT !.open = TRUE]
    /\ UNCHANGED <<num, stdout, counter, img, meta, rgb, rgb8, files, fetched,
                   failed, err>>

\* cam = svs.Camera(), the open raises: the script ends
CameraFail ==
    /\ pc = "Camera"
    /\ trace' = Append(trace, "Camera")
    /\ \E o \in {"no_device", "open_failed"} : err' = o
    /\ failed' = failed \cup {"Camera"}
    /\ pc' = "error"
    /\ UNCHANGED <<num, stdout, cam, counter, img, meta, rgb, rgb8, files,
                   fetched>>

\* cam.framerate = 5
SetFramerate ==
    /\ Advance("set_framerate")
    /\ cam' = [cam EXCEPT !.framerate = Framerate]
    /\ UNCHANGED <<num, stdout, counter, img, meta, rgb, rgb8, files, fetched,
                   failed, err>>

\* cam.exposure = 40
SetExposure ==
    /\ Advance("set_exposure")
    /\ cam' = [cam EXCEPT !.exposure = Exposure]
    /\ UNCHANGED <<num, stdout, counter, img, meta, rgb, rgb8, files, fetched,
                   failed, err>>

\* counter = 0
SetCounter ==
    /\ Advance("set_counter")
    /\ counter' = 0
    /\ UNCHANGED <<num, stdout, cam, img, meta, rgb, rgb8, files, fetched,
                   failed, err>>

\* cam.continuous_capture = True
CaptureOn ==
    /\ Advance("capture_on")
    /\ cam' = [cam EXCEPT !.continuous_capture = TRUE]
    /\ UNCHANGED <<num, stdout, counter, img, meta, rgb, rgb8, files, fetched,
                   failed, err>>

\* img, meta = cam.next()
NextFrame ==
    /\ Advance("next")
    /\ \E f \in Frames, m \in Metas :
         /\ img' = f
         /\ meta' = m
         /\ fetched' = Append(fetched, f)
    /\ UNCHANGED <<num, stdout, cam, counter, rgb, rgb8, files, failed, err>>

\* Mutation: the assignment has no effect on the device.
CaptureOffNoEffect ==
    /\ Advance("capture_off")
    /\ UNCHANGED <<num, stdout, cam, counter, img, meta, rgb, rgb8, files,
                   fetched, failed, err>>

\* cam.continuous_capture = False
CaptureOff ==
    /\ Advance("capture_off")
    /\ cam' = [cam EXCEPT !.continuous_capture = FALSE]
    /\ UNCHANGED <<num, stdout, counter, img, meta, rgb, rgb8, files, fetched,
                   failed, err>>

\* tiffutils.save_dng(img, "test.dng", camera=cam.name, cfa_pattern=CFA_GRBG)
SaveDng ==
    /\ Advance("save_dng")
    /\ files' = [files EXCEPT !["test.dng"] =
                    Append(@, [raw |-> img, camera |-> cam.name, cfa |-> "CFA_GRBG"])]
    /\ UNCHANGED <<num, stdout, cam, counter, img, meta, rgb, rgb8, fetched,
                   failed, err>>

\* Mutation: the Bayer code is picked by the number of cameras found.
CvtColorByCount ==
    /\ Advance("cvtColor")
    /\ rgb' = cvtColor(img, IF num = 1 THEN "COLOR_BAYER_GR2RGB"
                                       ELSE "COLOR_BAYER_BG2RGB")
    /\ UNCHANGED <<num, stdout, cam, counter, img, meta, rgb8, files, fetched,
                   failed, err>>

\* rgb = cv.cvtColor(img, cv.COLOR_BAYER_GR2RGB)
CvtColor ==
    /\ Advance("cvtColor")
    /\ rgb' = cvtColor(img, "COLOR_BAYER_GR2RGB")
    /\ UNCHANGED <<num, stdout, cam, counter, img, meta, rgb8, files, fetched,
                   failed, err>>

\* cv.imwrite('capture.png', rgb), the file is written (PNG holds 16 bits)
ImwritePng ==
    /\ Advance("imwrite_png")
    /\ files' = [files EXCEPT !["capture.png"] = Append(@, rgb)]
    /\ UNCHANGED <<num, stdout, cam, counter, img, meta, rgb, rgb8, fetched,
                   failed, err>>

\* cv.imwrite('capture.png', rgb) cannot write the file and returns False;
\* the script discards the value and goes on
ImwritePngFalse ==
    /\ Advance("imwrite_png")
    /\ failed' = failed \cup {"imwrite_png"}
    /\ UNCHANGED <<num, stdout, cam, counter, img, meta, rgb, rgb8, files,
                   fetched, err>>

\* rgb8 = np.right_shift(rgb, 8)
RightShift ==
    /\ Advance("right_shift")
    /\ rgb8' = right_shift(rgb, ShiftAmount)
    /\ UNCHANGED <<num, stdout, cam, counter, img, meta, rgb, files, fetched,
                   failed, err>>

\* cv.imwrite('capture.jpg', rgb8), the file is written
ImwriteJpg ==
    /\ Advance("imwrite_jpg")
    /\ files' = [files EXCEPT !["capture.jpg"] = Append(@, Saturate8(rgb8))]
    /\ UNCHANGED <<num, stdout, cam, counter, img, meta, rgb, rgb8, fetched,
                   failed, err>>

\* cv.imwrite('capture.jpg', rgb8) cannot write the file and returns False
ImwriteJpgFalse ==
    /\ Advance("imwrite_jpg")
    /\ failed' = failed \cup {"imwrite_jpg"}
    /\ UNCHANGED <<num, stdout, cam, counter, img, meta, rgb, rgb8, files,
                   fetched, err>>

\* Mutation: a raising call releases continuous capture before the script ends.
RaiseWithRelease ==
    /\ pc \in RaisingSteps
    /\ trace' = Append(trace, pc)
    /\ failed' = failed \cup {pc}
    /\ err' = "raised"
    /\ pc' = "error"
    /\ cam' = [cam EXCEPT !.continuous_capture = FALSE]
    /\ UNCHANGED <<num, stdout, counter, img, meta, rgb, rgb8, files, fetched>>

\* A library call raises: nothing catches it and the script ends there.
Raise ==
    /\ pc \in RaisingSteps
    /\ trace' = Append(trace, pc)
    /\ failed' = failed \cup {pc}
    /\ err' = "raised"
    /\ pc' = "error"
    /\ UNCHANGED <<num, stdout, cam, counter, img, meta, rgb, rgb8, files,
                   fetched>>

Next ==
    \/ NumberCameras
    \/ PrintNum
    \/ Camera
    \/ CameraFail
    \/ SetFramerate
    \/ SetExposure
    \/ SetCounter
    \/ CaptureOn
    \/ NextFrame
    \/ CaptureOff
    \/ SaveDng
    \/ CvtColor
    \/ ImwritePng
    \/ ImwritePngFalse
    \/ RightShift
    \/ ImwriteJpg
    \/ ImwriteJpgFalse
    \/ Raise

Spec == Init /\ [][Next]_vars

(***************************************************************************)
(* Vocabulary of the properties.                                           *)
(***************************************************************************)
Range(s) == {s[i] : i \in DOMAIN s}
Count(step, s) == Cardinality({i \in DOMAIN s : s[i] = step})
Pos(step, s) == CHOOSE i \in DOMAIN s : s[i] = step
\* both statements ran, a before b
Before(a, b) ==
    /\ a \in Range(trace)
    /\ b \in Range(trace)
    /\ Pos(a, trace) < Pos(b, trace)
\* the statement ran and did not fail
Completed(step) == step \in Range(trace) /\ step \notin failed
Written(f) == files[f] # <<>>
IsPrefix(s, t) == Len(s) <= Len(t) /\ \A i \in DOMAIN s : s[i] = t[i]

\* the statements of the script from the first to the last
FullOrder ==
    <<"number_cameras", "print", "Camera", "set_framerate", "set_exposure",
      "set_counter", "capture_on", "next", "capture_off", "save_dng",
      "cvtColor", "imwrite_png", "right_shift", "imwrite_jpg">>

(***************************************************************************)
(* C1.  Order of the pipeline steps.                                       *)
(***************************************************************************)
\* C1 as stated: in a run that terminates normally the steps occur in the
\* order open, configure, acquire, persist DNG, demosaic, persist PNG and
\* JPEG, and only then the stop of continuous capture, after the last file.
C1_StopAfterLastFile ==
    pc = "done" =>
        /\ Before("Camera", "set_framerate")
        /\ Before("set_framerate", "set_exposure")
        /\ Before("set_exposure", "next")
        /\ Before("next", "save_dng")
        /\ Before("save_dng", "cvtColor")
        /\ Before("cvtColor", "imwrite_png")
        /\ Before("imwrite_png", "imwrite_jpg")
        /\ Before("imwrite_jpg", "capture_off")

\* C1 amended: in a run that terminates normally the steps occur in program
\* order, with the stop of continuous capture right after the frame fetch and
\* before the DNG, PNG and JPEG steps; no file is ever written while
\* continuous capture is still enabled.
C1_StopBeforeFiles ==
    /\ pc = "done" =>
          /\ trace = FullOrder
          /\ Before("next", "capture_off")
          /\ Before("capture_off", "save_dng")
          /\ Before("save_dng", "cvtColor")
          /\ Before("cvtColor", "imwrite_png")
          /\ Before("imwrite_png", "imwrite_jpg")
    /\ \A f \in FileNames : Written(f) => ~cam.continuous_capture

C1_Witness ==
    /\ pc = "done"
    /\ \A f \in FileNames : Written(f)

(***************************************************************************)
(* C2.  One fetch, one frame, each file written at most once.              *)
(***************************************************************************)
\* C2: cam.next() runs at most once, and exactly once in a run that
\* terminates normally; each of the three files is written at most once and
\* what is written comes from the one frame that was fetched.
C2_SingleFrame ==
    /\ Count("next", trace) <= 1
    /\ Len(fetched) <= 1
    /\ pc = "done" => Count("next", trace) = 1 /\ Len(fetched) = 1
    /\ \A f \in FileNames :
          /\ Len(files[f]) <= 1
          /\ Written(f) => Len(fetched) = 1 /\ img = fetched[1]
    /\ Written("test.dng") => files["test.dng"][1].raw = fetched[1]
    /\ Written("capture.png") =>
          /\ Height(files["capture.png"][1]) = Height(fetched[1])
          /\ Width(files["capture.png"][1]) = Width(fetched[1])
    /\ Written("capture.jpg") =>
          /\ Height(files["capture.jpg"][1]) = Height(fetched[1])
          /\ Width(files["capture.jpg"][1]) = Width(fetched[1])

C2_Witness ==
    /\ pc = "done"
    /\ Len(fetched) = 1
    /\ \A f \in FileNames : Len(files[f]) = 1

(***************************************************************************)
(* C3.  The bit-depth reduction.                                           *)
(***************************************************************************)
\* C3: every sample written to capture.jpg is the demosaiced sample divided
\* by 256 rounded down, and a 16-bit sample gives a sample in 0..255.
C3_ShiftByEight ==
    Written("capture.jpg") =>
        LET jpg == files["capture.jpg"][1]
        IN  \A r \in DOMAIN rgb : \A c \in DOMAIN rgb[r] : \A ch \in 1..3 :
                /\ rgb[r][c][ch] \in 0..MaxSample
                /\ jpg[r][c][ch] = rgb[r][c][ch] \div 256
                /\ jpg[r][c][ch] \in 0..255

\* a JPEG was written from a frame holding a sample that is no multiple of 256
C3_Witness ==
    /\ Written("capture.jpg")
    /\ \E r \in DOMAIN rgb : \E c \in DOMAIN rgb[r] :
          /\ rgb[r][c][1] % 256 >= 128
          /\ rgb[r][c][3] = MaxSample

(***************************************************************************)
(* C4.  The uniform 4x4 scenario.                                          *)
(***************************************************************************)
Uniform4x4 == [r \in 1..4 |-> [c \in 1..4 |-> 4096]]

\* C4: for the 4x4 raw frame whose every sample is 4096 the RGB frame is
\* 4x4x3 with every sample 4096 and the frame written to capture.jpg has
\* every sample 16.
C4_UniformFrame ==
    img = Uniform4x4 =>
        /\ Completed("cvtColor") =>
              rgb = [r \in 1..4 |-> [c \in 1..4 |-> <<4096, 4096, 4096>>]]
        /\ Written("capture.jpg") =>
              files["capture.jpg"][1] = [r \in 1..4 |-> [c \in 1..4 |-> <<16, 16, 16>>]]

C4_Witness ==
    /\ img = Uniform4x4
    /\ Completed("cvtColor")
    /\ Written("capture.jpg")

(***************************************************************************)
(* C5.  Continuous capture is released on the normal path.                 *)
(***************************************************************************)
\* C5: in a run that terminates normally continuous capture was enabled
\* exactly once and disabled after the fetch returned; the flag is false from
\* the disable step onward, so it is false in the final state.
C5_CaptureReleased ==
    /\ pc = "done" =>
          /\ Count("capture_on", trace) = 1
          /\ Before("capture_on", "next")
          /\ Before("next", "capture_off")
          /\ ~cam.continuous_capture
    /\ Completed("capture_off") => ~cam.continuous_capture

C5_Witness ==
    /\ pc = "done"
    /\ Completed("capture_on")
    /\ Completed("capture_off")

(***************************************************************************)
(* C6.  A failed fetch leaves continuous capture enabled.                  *)
(***************************************************************************)
\* C6: when cam.next() fails after continuous capture was enabled the script
\* ends in an error state with continuous capture still enabled, the disable
\* step never run and none of the three files written.
C6_FetchFailureLeaksCapture ==
    (pc = "error" /\ "next" \in failed) =>
        /\ cam.continuous_capture
        /\ "capture_off" \notin Range(trace)
        /\ \A f \in FileNames : ~Written(f)

C6_Witness ==
    /\ pc = "error"
    /\ "next" \in failed
    /\ Completed("capture_on")

(***************************************************************************)
(* C7.  A failed step ends the script.                                     *)
(***************************************************************************)
\* C7: a failure of any step ends the script at that step: the failed step
\* is the last one run, no step runs twice, a failed DNG write leaves the
\* PNG and the JPEG unwritten and a failed PNG write leaves the JPEG
\* unwritten.
C7_FailureEndsScript ==
    /\ \A s \in failed : trace[Len(trace)] = s
    /\ \A s \in Range(trace) : Count(s, trace) = 1
    /\ "save_dng" \in failed => ~Written("capture.png") /\ ~Written("capture.jpg")
    /\ "imwrite_png" \in failed => ~Written("capture.jpg")

C9_OutputsDependOnFrameOnly ==
    \A n \in 0..MaxCameras : \A m \in Metas :
        (num = n /\ meta = m) =>
            /\ Written("capture.png") =>
                  files["capture.png"][1] = cvtColor(img, "COLOR_BAYER_GR2RGB")
            /\ Written("capture.jpg") =>
                  files["capture.jpg"][1] =
                      Saturate8(right_shift(cvtColor(img, "COLOR_BAYER_GR2RGB"),
                                            ShiftAmount))

\* both files written in a run with two cameras and the second metadata value
C9_Witness ==
    /\ num = 2
    /\ meta = "meta_b"
    /\ Written("capture.png")
    /\ Written("capture.jpg")

(***************************************************************************)
(* C10.  The device count does not steer the script.                       *)
(***************************************************************************)
\* C10: for every count the query returns, zero included, the script goes on
\* to the same next step and attempts to open the device; the steps run are
\* always an initial part of the same sequence.
C10_CountDoesNotBranch ==
    \A n \in 0..MaxCameras :
        num = n =>
            /\ IsPrefix(trace, FullOrder)
            /\ Len(trace) = 1 => pc = "print"
            /\ Len(trace) = 2 => pc = "Camera"
            /\ Len(trace) >= 3 => trace[3] = "Camera"

C10_Witness ==
    /\ num = 0
    /\ Len(trace) >= 3
    /\ trace[3] = "Camera"

====
